---- MODULE Spec2Model ----
(***************************************************************************)
(* Change detection and notification pipeline of job_scraper:              *)
(* NewJobPostDetector (the identity store kept in jobs.json), the          *)
(* summarise-and-post loop of main(), and the process runs that reload the *)
(* store from the file.                                                    *)
(***************************************************************************)
EXTENDS Integers, Sequences, FiniteSets, TLC

VARIABLES
    pc,                 \* position of the running process in main()
    error,              \* the exception that ended the run, or None
    file,               \* jobs.json on disk
    file0,              \* jobs.json as it was when the run started
    known_jobs,         \* NewJobPostDetector.known_jobs
    known_ids,          \* NewJobPostDetector.known_ids
    scraped_jobs,       \* main: scraped_jobs
    new_jobs,           \* main: new_jobs
    idx,                \* main: position of the for loop in new_jobs
    attempts,           \* calls of SlackPoster.post_job made by this run
    failed_summaries,   \* loop positions at which summarize raised, this run
    notified_earlier,   \* ids posted by any earlier run
    notified_committed, \* ids posted by an earlier run that returned from main
    call,               \* last call made on a detector object (DetectorSpec)
    env,                \* os.environ after load_dotenv: the variables that are set
    io,                 \* what this run has done to the outside world so far
    agg                 \* run_scrapers: its tasks and what it returned (AggSpec)

vars == <<pc, error, file, file0, known_jobs, known_ids, scraped_jobs, new_jobs,
          idx, attempts, failed_summaries, notified_earlier, notified_committed,
          call, env, io, agg>>

\* ---------------------------------------------------------------- bounds
MaxScraped == 4
MaxStored == 2
MaxMissing == 1
MaxBatch == 2
MaxCalls == 3
MaxPerConnector == 2
MaxRows == 3
MaxReturning == 2

\* ---------------------------------------------------------------- data
None == "None"
URIs == {"A", "B", "C"}
Dates == {"d1", "d2"}
Summary == "summary"

\* models.py: Job with its JobOverview; description_summarised defaults to None
MkJob(uri, date, summarised) ==
    [job_overview |-> [job_uri |-> uri, delivery_date |-> date],
     description_summarised |-> summarised]

\* variant of Job.job_id: the link together with the deadline
job_id_with_date(t) == <<t.job_overview.job_uri, t.job_overview.delivery_date>>

\* models.py: Job.job_id
job_id(t) == t.job_overview.job_uri

Jobs == {MkJob(u, d, None) : u \in URIs, d \in Dates}

BoundedSeq(S, n) == UNION {[1..k -> S] : k \in 0..n}

Ids(s) == {job_id(s[i]) : i \in 1..Len(s)}

\* ------------------------------------------------- jobs.json (serialisation)
\* JobListModel.dump_json: every field of Job, the computed field job_id included
dump_job(t) ==
    [job_overview |-> t.job_overview,
     description_summarised |-> t.description_summarised,
     job_id |-> job_id(t)]

\* variant of dump_json: the list written last posting first
dump_json_reversed(jobs) ==
    [i \in 1..Len(jobs) |-> dump_job(jobs[Len(jobs) + 1 - i])]

dump_json(jobs) == [i \in 1..Len(jobs) |-> dump_job(jobs[i])]

\* JobListModel.validate_json: the declared fields are read, the serialised
\* job_id is not a field of Job and is computed again from job_overview
validate_job(o) ==
    [job_overview |-> o.job_overview,
     description_summarised |-> o.description_summarised]

validate_json(contents) == [i \in 1..Len(contents) |-> validate_job(contents[i])]

AbsentFile == [state |-> "absent", contents |-> <<>>]
ValidFile(jobs) == [state |-> "valid", contents |-> dump_json(jobs)]
\* open(file_path, "wb") has emptied the file and f.write has not happened
TruncatedFile == [state |-> "truncated", contents |-> <<>>]

\* ------------------------------------------------------ NewJobPostDetector
\* __init__: known_jobs stays [] when there is no file, else the parsed file
load_known_jobs(f) ==
    IF f.state = "valid" THEN validate_json(f.contents) ELSE <<>>

\* variant of the check: a file that does not parse is taken as no postings
load_raises_never(f) == FALSE

\* __init__: validate_json raises on a file that holds no JSON list
load_raises(f) == f.state = "truncated"

\* variant of detect_new_jobs: the unknown postings, last one first
detect_reversed(scraped, ids) ==
    LET sel == SelectSeq(scraped, LAMBDA t : job_id(t) \notin ids)
    IN  [i \in 1..Len(sel) |-> sel[Len(sel) + 1 - i]]

\* variant of detect_new_jobs: one posting per unknown identity, the first
detect_first_occurrences(scraped, ids) ==
    LET keep(i) == /\ job_id(scraped[i]) \notin ids
                   /\ \A j \in 1..(i - 1) : job_id(scraped[j]) # job_id(scraped[i])
        F[i \in 0..Len(scraped)] ==
            IF i = 0 THEN <<>>
            ELSE IF keep(i) THEN Append(F[i - 1], scraped[i]) ELSE F[i - 1]
    IN  F[Len(scraped)]

\* detect_new_jobs: [t for t in scraped_jobs if t.job_id not in self.known_ids]
detect_new_jobs(scraped, ids) ==
    SelectSeq(scraped, LAMBDA t : job_id(t) \notin ids)

\* variant of the loop body: no membership test
record_always(st, t) ==
    [known_jobs |-> Append(st.known_jobs, t),
     known_ids |-> st.known_ids \cup {job_id(t)},
     updated |-> TRUE]

\* variant of the loop body: known_ids.add left out
record_without_id(st, t) ==
    IF job_id(t) \notin st.known_ids
    THEN [known_jobs |-> Append(st.known_jobs, t),
          known_ids |-> st.known_ids,
          updated |-> TRUE]
    ELSE st

\* variant of the loop body: insert(0, t) for append(t)
record_in_front(st, t) ==
    IF job_id(t) \notin st.known_ids
    THEN [known_jobs |-> <<t>> \o st.known_jobs,
          known_ids |-> st.known_ids \cup {job_id(t)},
          updated |-> TRUE]
    ELSE st

\* variant of the loop body: known_jobs.append left out
record_unlisted(st, t) ==
    IF job_id(t) \notin st.known_ids
    THEN [known_jobs |-> st.known_jobs,
          known_ids |-> st.known_ids \cup {job_id(t)},
          updated |-> TRUE]
    ELSE st

\* update_known_jobs, the body of its for loop
record_if_new(st, t) ==
    IF job_id(t) \notin st.known_ids
    THEN [known_jobs |-> Append(st.known_jobs, t),
          known_ids |-> st.known_ids \cup {job_id(t)},
          updated |-> TRUE]
    ELSE st

RECURSIVE update_loop(_, _)
update_loop(new, st) ==
    IF new = <<>> THEN st
    ELSE update_loop(Tail(new), record_if_new(st, Head(new)))

\* update_known_jobs, up to the end of its for loop
update_known_jobs(new, jobs, ids) ==
    update_loop(new, [known_jobs |-> jobs, known_ids |-> ids, updated |-> FALSE])

\* variant of the write: the file is left as it is
write_never(st, f) == f

\* variant of the write: the file is written whether or not updated is set
write_always(st, f) == ValidFile(st.known_jobs)

\* update_known_jobs, "if updated": the whole known list replaces the file
write_file(st, f) ==
    IF st.updated THEN ValidFile(st.known_jobs) ELSE f

\* ------------------------------------------------------------------ main()
\* what run_scrapers can return: up to MaxScraped postings, not yet
\* summarised, repeated links included
ScrapeResults == BoundedSeq({MkJob(u, "d1", None) : u \in URIs}, MaxScraped)

Running == {"start", "dotenv", "summarizer", "browser", "scrapers", "scraped",
            "poster", "loaded", "summarize", "post", "update"}
Ended == {"done", "aborted", "crashed"}

\* variant of the loop: it is left after its first pass
LoopPcFirstOnly(i, new) == IF i <= 1 /\ i <= Len(new) THEN "summarize" ELSE "update"

\* position after one pass of the for loop body, or before the first
LoopPc(i, new) == IF i <= Len(new) THEN "summarize" ELSE "update"

\* SlackPoster.post_job: returns the response, or prints the SlackApiError it
\* caught and returns None; either way the caller goes on
post_job(api_error) == [pc |-> "next", error |-> None]

\* the scrapers run_scrapers builds, in the order of its list; job_platform.upper()
Scrapers == <<"MERCELL", "VERAMA", "FOLQ", "EMAGINE", "WITTED">>
Platforms == {Scrapers[i] : i \in 1..Len(Scrapers)}

\* base.py _load_credentials: the two variables of a platform
Credentials(p) == {p \o "_USERNAME", p \o "_PASSWORD"}

\* the variables the program reads with os.getenv
EnvVars == {"GEMINI_API_KEY", "SLACK_TOKEN"} \cup UNION {Credentials(p) : p \in Platforms}

\* environments: at most MaxMissing of the variables unset or empty
Envs == {EnvVars \ m : m \in {x \in SUBSET EnvVars : Cardinality(x) <= MaxMissing}}

\* no run_scrapers call is under way
NoAgg == [phase |-> "none"]

NoCall == [op |-> "none", arg |-> <<>>, result |-> <<>>,
           pre_jobs |-> <<>>, pre_ids |-> {}]

Init ==
    /\ pc = "start"
    /\ error = None
    /\ file = AbsentFile
    /\ file0 = AbsentFile
    /\ known_jobs = <<>>
    /\ known_ids = {}
    /\ scraped_jobs = <<>>
    /\ new_jobs = <<>>
    /\ idx = 1
    /\ attempts = <<>>
    /\ failed_summaries = {}
    /\ notified_earlier = {}
    /\ notified_committed = {}
    /\ call = NoCall
    /\ env = {}
    /\ io = {}
    /\ agg = NoAgg

\* main: load_dotenv()
LoadDotenv ==
    /\ pc = "start"
    /\ \E e \in Envs : env' = e
    /\ pc' = "dotenv"
    /\ UNCHANGED <<error, file, file0, known_jobs, known_ids, scraped_jobs,
                   new_jobs, idx, attempts, failed_summaries, notified_earlier,
                   notified_committed, call, io, agg>>

\* main: summarizer = JobDescriptionSummarizer(); exit(1) without GEMINI_API_KEY
NewSummarizer ==
    /\ pc = "dotenv"
    /\ IF "GEMINI_API_KEY" \in env
       THEN pc' = "summarizer" /\ UNCHANGED error
       ELSE pc' = "aborted" /\ error' = "SystemExit"
    /\ UNCHANGED <<file, file0, known_jobs, known_ids, scraped_jobs, new_jobs,
                   idx, attempts, failed_summaries, notified_earlier,
                   notified_committed, call, env, io, agg>>

\* run_scrapers: async_playwright() and p.chromium.launch()
LaunchBrowser ==
    /\ pc = "summarizer"
    /\ io' = io \cup {"browser"}
    /\ pc' = "browser"
    /\ UNCHANGED <<error, file, file0, known_jobs, known_ids, scraped_jobs,
                   new_jobs, idx, attempts, failed_summaries, notified_earlier,
                   notified_committed, call, env, agg>>

\* variant of the step: a scraper looks for its credentials when it logs in
NewScrapersLazy ==
    /\ pc = "browser"
    /\ pc' = "scrapers"
    /\ UNCHANGED <<error, file, file0, known_jobs, known_ids, scraped_jobs,
                   new_jobs, idx, attempts, failed_summaries, notified_earlier,
                   notified_committed, call, env, io, agg>>

\* run_scrapers: the list of scrapers is built, each __init__ loading its
\* credentials; the first platform without them raises ValueError
NewScrapers ==
    /\ pc = "browser"
    /\ IF \A p \in Platforms : Credentials(p) \subseteq env
       THEN pc' = "scrapers" /\ UNCHANGED error
       ELSE pc' = "aborted" /\ error' = "ValueError"
    /\ UNCHANGED <<file, file0, known_jobs, known_ids, scraped_jobs, new_jobs,
                   idx, attempts, failed_summaries, notified_earlier,
                   notified_committed, call, env, io, agg>>

\* main: scraped_jobs = await run_scrapers(), from gather to its return
RunScrapers ==
    /\ pc = "scrapers"
    /\ \E r \in ScrapeResults : scraped_jobs' = r
    /\ io' = io \cup {"scrape"}
    /\ pc' = "scraped"
    /\ UNCHANGED <<error, file, file0, known_jobs, known_ids, new_jobs, idx,
                   attempts, failed_summaries, notified_earlier,
                   notified_committed, call, env, agg>>

\* main: slack_poster = SlackPoster(); raises ValueError without SLACK_TOKEN
NewSlackPoster ==
    /\ pc = "scraped"
    /\ IF "SLACK_TOKEN" \in env
       THEN pc' = "poster" /\ UNCHANGED error
       ELSE pc' = "aborted" /\ error' = "ValueError"
    /\ UNCHANGED <<file, file0, known_jobs, known_ids, scraped_jobs, new_jobs,
                   idx, attempts, failed_summaries, notified_earlier,
                   notified_committed, call, env, io, agg>>

\* main: change_detector = NewJobPostDetector("jobs.json")
NewDetector ==
    /\ pc = "poster"
    /\ io' = IF file.state = "absent" THEN io ELSE io \cup {"read"}
    /\ IF load_raises(file)
       THEN /\ pc' = "aborted"
            /\ error' = "ValidationError"
            /\ UNCHANGED <<known_jobs, known_ids>>
       ELSE /\ pc' = "loaded"
            /\ known_jobs' = load_known_jobs(file)
            /\ known_ids' = Ids(load_known_jobs(file))
            /\ UNCHANGED error
    /\ UNCHANGED <<file, file0, scraped_jobs, new_jobs, idx, attempts,
                   failed_summaries, notified_earlier, notified_committed, call,
                   env, agg>>

\* variant of the step: the new postings are written to jobs.json at once
DetectEarlyCommit ==
    /\ pc = "loaded"
    /\ new_jobs' = detect_new_jobs(scraped_jobs, known_ids)
    /\ idx' = 1
    /\ pc' = LoopPc(1, new_jobs')
    /\ LET st == update_known_jobs(new_jobs', known_jobs, known_ids)
       IN  file' = write_file(st, file)
    /\ UNCHANGED <<error, file0, known_jobs, known_ids, scraped_jobs, attempts,
                   failed_summaries, notified_earlier, notified_committed, call,
                   env, io, agg>>

\* main: new_jobs = change_detector.detect_new_jobs(scraped_jobs)
DetectNewJobs ==
    /\ pc = "loaded"
    /\ new_jobs' = detect_new_jobs(scraped_jobs, known_ids)
    /\ idx' = 1
    /\ pc' = LoopPc(1, new_jobs')
    /\ UNCHANGED <<error, file, file0, known_jobs, known_ids, scraped_jobs,
                   attempts, failed_summaries, notified_earlier,
                   notified_committed, call,
                   env, io, agg>>

\* variant of the step: the posting goes to post_job as it was scraped
SummarizeLater ==
    /\ pc = "summarize"
    /\ pc' = "post"
    /\ UNCHANGED <<error, file, file0, known_jobs, known_ids, scraped_jobs,
                   new_jobs, idx, attempts, failed_summaries, notified_earlier,
                   notified_committed, call, env, io, agg>>

\* main, loop body: job.description_summarised = summarizer.summarize(...)
\* summarize returns the text, or the API call in it raises and nothing
\* between it and the top of main catches the exception. (The Job object is
\* also the element of scraped_jobs; only its job_id is read from there.)
Summarize ==
    /\ pc = "summarize"
    /\ \/ /\ new_jobs' = [new_jobs EXCEPT ![idx].description_summarised = Summary]
          /\ pc' = "post"
          /\ UNCHANGED <<error, failed_summaries>>
       \/ /\ failed_summaries' = failed_summaries \cup {idx}
          /\ pc' = "aborted"
          /\ error' = "SummarizerError"
          /\ UNCHANGED new_jobs
    /\ UNCHANGED <<file, file0, known_jobs, known_ids, scraped_jobs, idx,
                   attempts, notified_earlier, notified_committed, call,
                   env, io, agg>>

\* main, loop body: slack_poster.post_job(job)
PostJob ==
    /\ pc = "post"
    /\ \E api_error \in BOOLEAN :
          LET r == post_job(api_error)
          IN  /\ attempts' = Append(attempts, [job |-> new_jobs[idx], ok |-> ~api_error])
              /\ error' = r.error
              /\ IF r.pc = "next"
                 THEN /\ idx' = idx + 1
                      /\ pc' = LoopPc(idx + 1, new_jobs)
                 ELSE /\ idx' = idx
                      /\ pc' = r.pc
    /\ io' = io \cup {"notify"}
    /\ UNCHANGED <<file, file0, known_jobs, known_ids, scraped_jobs, new_jobs,
                   failed_summaries, notified_earlier, notified_committed, call,
                   env, agg>>

\* main: change_detector.update_known_jobs(new_jobs)
UpdateKnownJobs ==
    /\ pc = "update"
    /\ LET st == update_known_jobs(new_jobs, known_jobs, known_ids)
       IN  /\ known_jobs' = st.known_jobs
           /\ known_ids' = st.known_ids
           /\ file' = write_file(st, file)
           /\ io' = IF st.updated THEN io \cup {"write"} ELSE io
    /\ pc' = "done"
    /\ UNCHANGED <<error, file0, scraped_jobs, new_jobs, idx, attempts,
                   failed_summaries, notified_earlier, notified_committed, call,
                   env, agg>>

\* the process dies inside update_known_jobs between open(.., "wb") and the
\* end of f.write
UpdateKnownJobsCrash ==
    /\ pc = "update"
    /\ LET st == update_known_jobs(new_jobs, known_jobs, known_ids)
       IN  /\ st.updated
           /\ known_jobs' = st.known_jobs
           /\ known_ids' = st.known_ids
           /\ file' = TruncatedFile
    /\ io' = io \cup {"write"}
    /\ pc' = "crashed"
    /\ UNCHANGED <<error, file0, scraped_jobs, new_jobs, idx, attempts,
                   failed_summaries, notified_earlier, notified_committed, call,
                   env, agg>>

\* the process is killed anywhere else in main
Crash ==
    /\ pc \in Running
    /\ pc' = "crashed"
    /\ UNCHANGED <<error, file, file0, known_jobs, known_ids, scraped_jobs,
                   new_jobs, idx, attempts, failed_summaries, notified_earlier,
                   notified_committed, call,
                   env, io, agg>>

\* the next invocation of the program: a new process, the same jobs.json
NextRun ==
    /\ pc \in Ended
    /\ pc' = "start"
    /\ error' = None
    /\ file0' = file
    /\ known_jobs' = <<>>
    /\ known_ids' = {}
    /\ scraped_jobs' = <<>>
    /\ new_jobs' = <<>>
    /\ idx' = 1
    /\ attempts' = <<>>
    /\ failed_summaries' = {}
    /\ notified_earlier' =
          notified_earlier \cup {job_id(attempts[i].job) : i \in 1..Len(attempts)}
    /\ notified_committed' =
          IF pc = "done"
          THEN notified_committed \cup {job_id(attempts[i].job) : i \in 1..Len(attempts)}
          ELSE notified_committed
    /\ env' = {}
    /\ io' = {}
    /\ UNCHANGED <<file, call, agg>>

Next ==
    \/ LoadDotenv
    \/ NewSummarizer
    \/ LaunchBrowser
    \/ NewScrapers
    \/ RunScrapers
    \/ NewSlackPoster
    \/ NewDetector
    \/ DetectNewJobs
    \/ Summarize
    \/ PostJob
    \/ UpdateKnownJobs
    \/ UpdateKnownJobsCrash
    \/ Crash
    \/ NextRun

Spec == Init /\ [][Next]_vars

\* ------------------------------------------- a detector object, any calls
\* files a run can have left behind: at most MaxStored postings, each with
\* its own link, summarised before they were stored
StoredJobs == {MkJob(u, d, Summary) : u \in URIs, d \in Dates}

InitialFiles ==
    {AbsentFile} \cup
    {ValidFile(s) : s \in {q \in BoundedSeq(StoredJobs, MaxStored) :
                              Cardinality(Ids(q)) = Len(q)}}

\* NewJobPostDetector(file_path) on a file that parses
DetectorInit ==
    /\ pc = "object"
    /\ error = None
    /\ file \in InitialFiles
    /\ file0 = file
    /\ known_jobs = load_known_jobs(file)
    /\ known_ids = Ids(load_known_jobs(file))
    /\ scraped_jobs = <<>>
    /\ new_jobs = <<>>
    /\ idx = 1
    /\ attempts = <<>>
    /\ failed_summaries = {}
    /\ notified_earlier = {}
    /\ notified_committed = {}
    /\ call = NoCall
    /\ env = {}
    /\ io = {}
    /\ agg = NoAgg

\* detect_new_jobs(scraped_jobs) called with any list on the loaded store
CallDetect ==
    /\ call.op = "none"
    /\ \E p \in BoundedSeq(Jobs, MaxScraped) :
          call' = [op |-> "detect", arg |-> p,
                   result |-> detect_new_jobs(p, known_ids),
                   pre_jobs |-> known_jobs, pre_ids |-> known_ids]
    /\ UNCHANGED <<pc, error, file, file0, known_jobs, known_ids, scraped_jobs,
                   new_jobs, idx, attempts, failed_summaries, notified_earlier,
                   notified_committed,
                   env, io, agg>>

\* update_known_jobs(new_jobs) called with any list on the loaded store
CallUpdate ==
    /\ call.op = "none"
    /\ \E p \in BoundedSeq(Jobs, MaxScraped) :
          LET st == update_known_jobs(p, known_jobs, known_ids)
          IN  /\ known_jobs' = st.known_jobs
              /\ known_ids' = st.known_ids
              /\ file' = write_file(st, file)
              /\ call' = [op |-> "update", arg |-> p, result |-> <<>>,
                          pre_jobs |-> known_jobs, pre_ids |-> known_ids]
    /\ UNCHANGED <<pc, error, file0, scraped_jobs, new_jobs, idx, attempts,
                   failed_summaries, notified_earlier, notified_committed,
                   env, io, agg>>

DetectorNext ==
    \/ CallDetect
    \/ CallUpdate

DetectorSpec == DetectorInit /\ [][DetectorNext]_vars

\* ------------------------------- a detector object, one call after another
\* what main() passes in: postings as scraped, at most MaxBatch at a time
Batches == BoundedSeq({MkJob(u, "d1", None) : u \in URIs}, MaxBatch)

\* files that were not left by a run: two postings with one link
DuplicateFiles ==
    {ValidFile(<<MkJob(u, c, Summary), MkJob(u, d, Summary)>>) :
        u \in URIs, c \in Dates, d \in Dates}

\* NewJobPostDetector(file_path) on any file that parses; no call made
CallsInit ==
    /\ pc = "object"
    /\ error = None
    /\ file \in InitialFiles \cup DuplicateFiles
    /\ file0 = file
    /\ known_jobs = load_known_jobs(file)
    /\ known_ids = Ids(load_known_jobs(file))
    /\ scraped_jobs = <<>>
    /\ new_jobs = <<>>
    /\ idx = 1
    /\ attempts = <<>>
    /\ failed_summaries = {}
    /\ notified_earlier = {}
    /\ notified_committed = {}
    /\ call = [op |-> "none", arg |-> <<>>, result |-> <<>>, detects |-> 0]
    /\ env = {}
    /\ io = {}
    /\ agg = NoAgg

\* variant of detect_new_jobs: what it returns is remembered as seen
DetectCallRecords ==
    /\ call.detects < MaxCalls
    /\ \E p \in Batches :
          /\ call' = [op |-> "detect", arg |-> p,
                      result |-> detect_new_jobs(p, known_ids),
                      detects |-> call.detects + 1]
          /\ known_ids' = known_ids \cup Ids(detect_new_jobs(p, known_ids))
    /\ UNCHANGED <<pc, error, file, file0, known_jobs, scraped_jobs,
                   new_jobs, idx, attempts, failed_summaries, notified_earlier,
                   notified_committed, env, io, agg>>

\* detect_new_jobs(scraped_jobs), the call.detects + 1 st call of it
DetectCall ==
    /\ call.detects < MaxCalls
    /\ \E p \in Batches :
          call' = [op |-> "detect", arg |-> p,
                   result |-> detect_new_jobs(p, known_ids),
                   detects |-> call.detects + 1]
    /\ UNCHANGED <<pc, error, file, file0, known_jobs, known_ids, scraped_jobs,
                   new_jobs, idx, attempts, failed_summaries, notified_earlier,
                   notified_committed, env, io, agg>>

\* update_known_jobs(new_jobs)
UpdateCall ==
    /\ \E p \in Batches :
          LET st == update_known_jobs(p, known_jobs, known_ids)
          IN  /\ known_jobs' = st.known_jobs
              /\ known_ids' = st.known_ids
              /\ file' = write_file(st, file)
              /\ call' = [op |-> "update", arg |-> p, result |-> <<>>,
                          detects |-> call.detects]
    /\ UNCHANGED <<pc, error, file0, scraped_jobs, new_jobs, idx, attempts,
                   failed_summaries, notified_earlier, notified_committed,
                   env, io, agg>>

CallsNext ==
    \/ DetectCall
    \/ UpdateCall

CallsSpec == CallsInit /\ [][CallsNext]_vars

\* ------------------------------------------------------------ run_scrapers
\* scrape_jobs: the awaits of the coroutine, in order
Awaits == <<"context", "login", "overview", "traverse">>
Awaiting == {Awaits[i] : i \in 1..Len(Awaits)}
after_await(s) ==
    IF s = "traverse" THEN "done"
    ELSE Awaits[1 + CHOOSE i \in 1..Len(Awaits) : Awaits[i] = s]

\* a Job as a connector returns it: the k-th posting of platform p, its link
\* on the site of p
ScrapedJob(p, k) == MkJob(<<p, k>>, "d1", None)
platform(t) == t.job_overview.job_uri[1]
\* what scrape_jobs of platform p can return
ScrapeReturns(p) ==
    {[k \in 1..n |-> ScrapedJob(p, k)] : n \in 0..MaxPerConnector}

\* variant of the check of gather: one finished task is enough
any_finished(task) == \E p \in Platforms : task[p] \in {"done", "failed"}

\* asyncio.gather(*tasks, return_exceptions=True) is done once every task has
\* returned or raised
all_finished(task) == \A p \in Platforms : task[p] \in {"done", "failed"}

\* variant of the loop: it ends at the first result that is an exception
RECURSIVE collect_until_failure(_, _, _, _)
collect_until_failure(i, task, results, acc) ==
    IF i > Len(Scrapers) THEN acc
    ELSE IF task[Scrapers[i]] = "failed"
         THEN [acc EXCEPT !.log = Append(@, Scrapers[i])]
         ELSE collect_until_failure(i + 1, task, results,
                  [acc EXCEPT !.out = @ \o results[Scrapers[i]]])

\* variant of the loop: a list is taken over last posting first
RECURSIVE collect_reversed(_, _, _, _)
collect_reversed(i, task, results, acc) ==
    IF i > Len(Scrapers) THEN acc
    ELSE collect_reversed(i + 1, task, results,
             IF task[Scrapers[i]] = "failed"
             THEN [acc EXCEPT !.log = Append(@, Scrapers[i])]
             ELSE [acc EXCEPT !.out = @ \o
                      [k \in 1..Len(results[Scrapers[i]]) |->
                          results[Scrapers[i]][Len(results[Scrapers[i]]) + 1 - k]]])

\* for scraper, result in zip(scrapers, results): log an exception, extend
\* scraped_jobs by a list
RECURSIVE collect_loop(_, _, _, _)
collect_loop(i, task, results, acc) ==
    IF i > Len(Scrapers) THEN acc
    ELSE collect_loop(i + 1, task, results,
             IF task[Scrapers[i]] = "failed"
             THEN [acc EXCEPT !.log = Append(@, Scrapers[i])]
             ELSE [acc EXCEPT !.out = @ \o results[Scrapers[i]]])

collect(task, results) ==
    collect_loop(1, task, results, [out |-> <<>>, log |-> <<>>])

\* the five scrapers are constructed and their coroutines created; none runs
AggInit ==
    /\ pc = "scrapers"
    /\ error = None
    /\ file = AbsentFile
    /\ file0 = file
    /\ known_jobs = <<>>
    /\ known_ids = {}
    /\ scraped_jobs = <<>>
    /\ new_jobs = <<>>
    /\ idx = 1
    /\ attempts = <<>>
    /\ failed_summaries = {}
    /\ notified_earlier = {}
    /\ notified_committed = {}
    /\ call = NoCall
    /\ env = EnvVars
    /\ io = {"browser"}
    /\ agg = [phase |-> "created",
              task |-> [p \in Platforms |-> "pending"],
              results |-> [p \in Platforms |-> <<>>],
              out |-> <<>>,
              log |-> <<>>]

AggUnchanged ==
    UNCHANGED <<pc, error, file, file0, known_jobs, known_ids, scraped_jobs,
                new_jobs, idx, attempts, failed_summaries, notified_earlier,
                notified_committed, call, env, io>>

\* await asyncio.gather(*tasks, ...): every coroutine becomes a task of the
\* event loop, then run_scrapers is suspended
Gather ==
    /\ agg.phase = "created"
    /\ agg' = [agg EXCEPT !.phase = "gathering",
                          !.task = [p \in Platforms |-> Awaits[1]]]
    /\ AggUnchanged

\* one task gets past its current await; the last one returns the jobs
TaskStep ==
    /\ agg.phase = "gathering"
    /\ \E p \in Platforms :
          /\ agg.task[p] \in Awaiting
          /\ \E r \in ScrapeReturns(p) :
                agg' = [agg EXCEPT
                          !.task[p] = after_await(agg.task[p]),
                          !.results[p] =
                              IF after_await(agg.task[p]) = "done" THEN r ELSE @]
    /\ AggUnchanged

\* the current await of one task raises; nothing in scrape_jobs catches it
TaskRaises ==
    /\ agg.phase = "gathering"
    /\ \E p \in Platforms :
          /\ agg.task[p] \in Awaiting
          /\ agg' = [agg EXCEPT !.task[p] = "failed"]
    /\ AggUnchanged

\* one task will never return nor raise: an await that is never resumed, or
\* a loop such as "while True" of MercellScraper that finds a next page forever
TaskHangs ==
    /\ agg.phase = "gathering"
    /\ \E p \in Platforms :
          /\ agg.task[p] \in Awaiting
          /\ agg' = [agg EXCEPT !.task[p] = "hung"]
    /\ AggUnchanged

\* gather is done: the loop over the results, browser.close(), return
AggReturn ==
    /\ agg.phase = "gathering"
    /\ all_finished(agg.task)
    /\ LET c == collect(agg.task, agg.results)
       IN  agg' = [agg EXCEPT !.phase = "returned", !.out = c.out, !.log = c.log]
    /\ pc' = "scraped"
    /\ scraped_jobs' = collect(agg.task, agg.results).out
    /\ io' = io \cup {"scrape"}
    /\ UNCHANGED <<error, file, file0, known_jobs, known_ids, new_jobs, idx,
                   attempts, failed_summaries, notified_earlier,
                   notified_committed, call, env>>

AggNext ==
    \/ Gather
    \/ TaskStep
    \/ TaskRaises
    \/ TaskHangs
    \/ AggReturn

AggSpec == AggInit /\ [][AggNext]_vars

\* ------------------------------------ from the gathered results to the file
\* what gather can hand back: per connector a list or an exception, at most
\* MaxReturning connectors with postings
FlowOutcomes ==
    {[p \in Platforms |->
         IF p \in f
         THEN [task |-> "failed", result |-> <<>>]
         ELSE [task |-> "done",
               result |-> CHOOSE r \in ScrapeReturns(p) : Len(r) = n[p]]] :
        f \in SUBSET Platforms,
        n \in {m \in [Platforms -> 0..MaxPerConnector] :
                  Cardinality({p \in Platforms : m[p] > 0}) <= MaxReturning}}

\* jobs.json before the run: absent, or the first posting of one platform
FlowFiles ==
    {AbsentFile} \cup
    {ValidFile(<<[ScrapedJob(p, 1) EXCEPT !.description_summarised = Summary]>>) :
        p \in Platforms}

\* every task of gather has returned or raised
FlowInit ==
    /\ pc = "scrapers"
    /\ error = None
    /\ file \in FlowFiles
    /\ file0 = file
    /\ known_jobs = <<>>
    /\ known_ids = {}
    /\ scraped_jobs = <<>>
    /\ new_jobs = <<>>
    /\ idx = 1
    /\ attempts = <<>>
    /\ failed_summaries = {}
    /\ notified_earlier = {}
    /\ notified_committed = {}
    /\ call = NoCall
    /\ env = EnvVars
    /\ io = {"browser"}
    /\ \E o \in FlowOutcomes :
          agg = [phase |-> "gathering",
                 task |-> [p \in Platforms |-> o[p].task],
                 results |-> [p \in Platforms |-> o[p].result],
                 out |-> <<>>,
                 log |-> <<>>]

FlowNext ==
    \/ AggReturn
    \/ NewSlackPoster
    \/ NewDetector
    \/ DetectNewJobs
    \/ Summarize
    \/ PostJob
    \/ UpdateKnownJobs

FlowSpec == FlowInit /\ [][FlowNext]_vars

\* ---------------------------------------------- MercellScraper, one page
\* MercellScraper.base_url
base_url == "https://my.mercell.com"

\* a <tr> of the tender table: a control row (header, pager, too few cells)
\* or the row of one tender, with or without its a.hide100pct link
TableRows == {[data |-> FALSE, link |-> FALSE],
              [data |-> TRUE, link |-> FALSE],
              [data |-> TRUE, link |-> TRUE]}
Tables == BoundedSeq(TableRows, MaxRows)

\* the href of the link of the tender in row i, one per tender
href(i) == "/m/mts/Tender.aspx?id=" \o ToString(i)

\* _parse_job_overview_table, one data row: job_href stays "" without the
\* link; job_uri = self.base_url + job_href
parse_row(rows, i) ==
    LET job_href == IF rows[i].link THEN href(i) ELSE ""
    IN  [job_uri |-> base_url \o job_href, delivery_date |-> "d1"]

\* _parse_job_overview_table: the loop over the rows, control rows skipped
parse_job_overview_table(rows) ==
    LET F[i \in 0..Len(rows)] ==
            IF i = 0 THEN <<>>
            ELSE IF rows[i].data
                 THEN Append(F[i - 1], [row |-> i, overview |-> parse_row(rows, i)])
                 ELSE F[i - 1]
    IN  F[Len(rows)]

\* _traverse_job_pages: one Job per overview, in order
traverse_job_pages(overviews) ==
    [k \in 1..Len(overviews) |->
        [row |-> overviews[k].row,
         job |-> [job_overview |-> overviews[k].overview,
                  description_summarised |-> None]]]

\* the table is on the page; nothing is parsed yet
MercellInit ==
    /\ pc = "scrapers"
    /\ error = None
    /\ file = AbsentFile
    /\ file0 = file
    /\ known_jobs = <<>>
    /\ known_ids = {}
    /\ scraped_jobs = <<>>
    /\ new_jobs = <<>>
    /\ idx = 1
    /\ attempts = <<>>
    /\ failed_summaries = {}
    /\ notified_earlier = {}
    /\ notified_committed = {}
    /\ call = NoCall
    /\ env = EnvVars
    /\ io = {"browser"}
    /\ \E t \in Tables :
          agg = [phase |-> "overview", rows |-> t, overviews |-> <<>>, jobs |-> <<>>]

\* overviews = await self._parse_job_overview(page)
ParseJobOverview ==
    /\ agg.phase = "overview"
    /\ agg' = [agg EXCEPT !.phase = "traverse",
                          !.overviews = parse_job_overview_table(agg.rows)]
    /\ AggUnchanged

\* jobs = await self._traverse_job_pages(page, overviews); return jobs
TraverseJobPages ==
    /\ agg.phase = "traverse"
    /\ agg' = [agg EXCEPT !.phase = "done",
                          !.jobs = traverse_job_pages(agg.overviews)]
    /\ AggUnchanged

\* a page.goto of _traverse_job_pages raises
TraverseRaises ==
    /\ agg.phase = "traverse"
    /\ agg.overviews # <<>>
    /\ agg' = [agg EXCEPT !.phase = "failed"]
    /\ AggUnchanged

MercellNext ==
    \/ ParseJobOverview
    \/ TraverseJobPages
    \/ TraverseRaises

MercellSpec == MercellInit /\ [][MercellNext]_vars

\* ------------------------------------- two runs at once, one jobs.json
\* Two processes run main() in the same directory. Each variable of a run is
\* a function of the process here; file is the one jobs.json; file0[r] is the
\* file as process r read it; io is the sequence of the processes that have
\* written the file. Both have returned from run_scrapers.
Procs == {1, 2}

\* jobs.json before the two runs: absent, or one posting stored by a run
ConcFiles == {AbsentFile} \cup {ValidFile(<<MkJob(u, "d1", Summary)>>) : u \in URIs}

ConcInit ==
    /\ pc = [r \in Procs |-> "poster"]
    /\ error = [r \in Procs |-> None]
    /\ file \in ConcFiles
    /\ file0 = [r \in Procs |-> file]
    /\ known_jobs = [r \in Procs |-> <<>>]
    /\ known_ids = [r \in Procs |-> {}]
    /\ scraped_jobs \in [Procs -> Batches]
    /\ new_jobs = [r \in Procs |-> <<>>]
    /\ idx = [r \in Procs |-> 1]
    /\ attempts = [r \in Procs |-> <<>>]
    /\ failed_summaries = {}
    /\ notified_earlier = {}
    /\ notified_committed = {}
    /\ call = NoCall
    /\ env = EnvVars
    /\ io = <<>>
    /\ agg = NoAgg

ConcUnchanged ==
    UNCHANGED <<scraped_jobs, failed_summaries, notified_earlier,
                notified_committed, call, env, agg>>

\* change_detector = NewJobPostDetector("jobs.json"), in process r
ConcNewDetector(r) ==
    /\ pc[r] = "poster"
    /\ file0' = [file0 EXCEPT ![r] = file]
    /\ IF load_raises(file)
       THEN /\ pc' = [pc EXCEPT ![r] = "aborted"]
            /\ error' = [error EXCEPT ![r] = "ValidationError"]
            /\ UNCHANGED <<known_jobs, known_ids>>
       ELSE /\ pc' = [pc EXCEPT ![r] = "loaded"]
            /\ known_jobs' = [known_jobs EXCEPT ![r] = load_known_jobs(file)]
            /\ known_ids' = [known_ids EXCEPT ![r] = Ids(load_known_jobs(file))]
            /\ UNCHANGED error
    /\ UNCHANGED <<file, new_jobs, idx, attempts, io>>
    /\ ConcUnchanged

\* variant of the step: the identities are read from jobs.json again
ConcDetectFresh(r) ==
    /\ pc[r] = "loaded"
    /\ new_jobs' = [new_jobs EXCEPT
                      ![r] = detect_new_jobs(scraped_jobs[r],
                                             Ids(load_known_jobs(file)))]
    /\ pc' = [pc EXCEPT ![r] = LoopPc(1, new_jobs'[r])]
    /\ UNCHANGED <<error, file, file0, known_jobs, known_ids, idx, attempts, io>>
    /\ ConcUnchanged

\* new_jobs = change_detector.detect_new_jobs(scraped_jobs), in process r
ConcDetect(r) ==
    /\ pc[r] = "loaded"
    /\ new_jobs' = [new_jobs EXCEPT
                      ![r] = detect_new_jobs(scraped_jobs[r], known_ids[r])]
    /\ pc' = [pc EXCEPT ![r] = LoopPc(1, new_jobs'[r])]
    /\ UNCHANGED <<error, file, file0, known_jobs, known_ids, idx, attempts, io>>
    /\ ConcUnchanged

\* one pass of the loop of main in process r: summarize, then post_job (which
\* returns whether or not Slack took the message); or summarize raises
ConcLoopBody(r) ==
    /\ pc[r] = "summarize"
    /\ \/ /\ new_jobs' = [new_jobs EXCEPT ![r][idx[r]].description_summarised = Summary]
          /\ attempts' = [attempts EXCEPT ![r] = Append(@, [job |-> new_jobs'[r][idx[r]]])]
          /\ idx' = [idx EXCEPT ![r] = @ + 1]
          /\ pc' = [pc EXCEPT ![r] = LoopPc(idx[r] + 1, new_jobs[r])]
          /\ UNCHANGED error
       \/ /\ pc' = [pc EXCEPT ![r] = "aborted"]
          /\ error' = [error EXCEPT ![r] = "SummarizerError"]
          /\ UNCHANGED <<new_jobs, attempts, idx>>
    /\ UNCHANGED <<file, file0, known_jobs, known_ids, io>>
    /\ ConcUnchanged

\* change_detector.update_known_jobs(new_jobs), in process r
ConcUpdate(r) ==
    /\ pc[r] = "update"
    /\ LET st == update_known_jobs(new_jobs[r], known_jobs[r], known_ids[r])
       IN  /\ known_jobs' = [known_jobs EXCEPT ![r] = st.known_jobs]
           /\ known_ids' = [known_ids EXCEPT ![r] = st.known_ids]
           /\ file' = write_file(st, file)
           /\ io' = IF st.updated THEN Append(io, r) ELSE io
    /\ pc' = [pc EXCEPT ![r] = "done"]
    /\ UNCHANGED <<error, file0, new_jobs, idx, attempts>>
    /\ ConcUnchanged

ConcNext ==
    \E r \in Procs :
        \/ ConcNewDetector(r)
        \/ ConcDetect(r)
        \/ ConcLoopBody(r)
        \/ ConcUpdate(r)

ConcSpec == ConcInit /\ [][ConcNext]_vars

\* ------------------------------------------------------------- properties
IdSeq(s) == [i \in 1..Len(s) |-> job_id(s[i])]

\* identities jobs.json held when the run started
StartIds == {file0.contents[i].job_id : i \in 1..Len(file0.contents)}
FileIds(f) == {f.contents[i].job_id : i \in 1..Len(f.contents)}

AttemptIds == [i \in 1..Len(attempts) |-> job_id(attempts[i].job)]

\* s can be obtained from t by deleting elements
IsSubseq(s, t) ==
    \E f \in [1..Len(s) -> 1..Len(t)] :
        /\ \A i \in 1..Len(s) : s[i] = t[f[i]]
        /\ \A i, j \in 1..Len(s) : i < j => f[i] < f[j]

IsPrefix(s, t) == Len(s) <= Len(t) /\ SubSeq(t, 1, Len(s)) = s

Occurrences(x, s) == Cardinality({i \in 1..Len(s) : s[i] = x})

\* position of the first posting of s with the identity of s[i]
FirstIndex(s, i) == CHOOSE k \in 1..i :
    /\ job_id(s[k]) = job_id(s[i])
    /\ \A j \in 1..(k - 1) : job_id(s[j]) # job_id(s[i])

\* C1: once update_known_jobs has been applied to detect_new_jobs(P), a second
\* detect_new_jobs(P) on the same store returns the empty list.
C1_DetectAfterCommitIsEmpty ==
    pc = "done" => detect_new_jobs(scraped_jobs, known_ids) = <<>>

C1_Witness ==
    /\ pc = "done"
    /\ new_jobs # <<>>
    /\ Len(new_jobs) < Len(scraped_jobs)

\* C2 as claimed: no identity gets a notification attempt in more than one
\* run, runs that crash or abort and are run again included.
C2_AtMostOnceAcrossAllRuns ==
    \A i \in 1..Len(attempts) : AttemptIds[i] \notin notified_earlier

\* C2 as amended: an identity that got a notification attempt in a run that
\* returned from update_known_jobs gets none in any later run.
C2_AtMostOnceAfterCommittedRun ==
    \A i \in 1..Len(attempts) : AttemptIds[i] \notin notified_committed

C2_Witness ==
    /\ pc = "done"
    /\ attempts # <<>>
    /\ \E i \in 1..Len(scraped_jobs) : job_id(scraped_jobs[i]) \in notified_committed
    /\ notified_earlier # notified_committed

\* C3 as claimed: when the loop of a run has finished, one notification has
\* been attempted per distinct identity absent from the store at run start,
\* and no identity has been notified twice in the run.
C3_OneAttemptPerDistinctIdentity ==
    pc \in {"update", "done"} =>
        /\ Len(attempts) = Cardinality(Ids(scraped_jobs) \ StartIds)
        /\ \A i, j \in 1..Len(attempts) : AttemptIds[i] = AttemptIds[j] => i = j

\* C3 as amended: the attempts of a run are, in order, the collected postings
\* whose identity is absent from the store at run start, repeated identities
\* included; all of them once the loop has finished.
C3_OneAttemptPerNewPosting ==
    LET expected == SelectSeq(IdSeq(scraped_jobs), LAMBDA u : u \notin StartIds)
    IN  /\ IsPrefix(AttemptIds, expected)
        /\ pc \in {"update", "done"} => AttemptIds = expected

C3_Witness ==
    /\ pc = "done"
    /\ StartIds = {"A"}
    /\ IdSeq(scraped_jobs) = <<"A", "B", "B", "C">>
    /\ AttemptIds = <<"B", "B", "C">>

\* C4 as claimed: detect_new_jobs returns no posting whose identity is in the
\* store and, of the postings sharing an identity, only the first.
C4_DetectFirstOccurrenceOnly ==
    call.op = "detect" =>
        /\ \A i \in 1..Len(call.result) : job_id(call.result[i]) \notin call.pre_ids
        /\ \A i, j \in 1..Len(call.result) :
              job_id(call.result[i]) = job_id(call.result[j]) => i = j

\* C4 as amended: detect_new_jobs returns no posting whose identity is in the
\* store and every candidate whose identity is not, as often as it occurs.
C4_DetectEveryUnknownOccurrence ==
    call.op = "detect" =>
        /\ \A i \in 1..Len(call.result) : job_id(call.result[i]) \notin call.pre_ids
        /\ \A i \in 1..Len(call.arg) :
              job_id(call.arg[i]) \notin call.pre_ids =>
                  Occurrences(call.arg[i], call.result) = Occurrences(call.arg[i], call.arg)

C4_Witness ==
    /\ call.op = "detect"
    /\ call.pre_ids = {"A"}
    /\ IdSeq(call.arg) = <<"A", "B", "B", "C">>
    /\ IdSeq(call.result) = <<"B", "B", "C">>

\* C5: update_known_jobs records the first posting of each identity that the
\* store did not hold, skips the others, and the known list grows by the
\* number of distinct identities of the batch that were absent before.
C5_CommitDedupsBatch ==
    call.op = "update" =>
        LET added == SubSeq(known_jobs, Len(call.pre_jobs) + 1, Len(known_jobs))
            fresh == {i \in 1..Len(call.arg) :
                         /\ job_id(call.arg[i]) \notin call.pre_ids
                         /\ FirstIndex(call.arg, i) = i}
        IN  /\ Len(known_jobs) - Len(call.pre_jobs)
                  = Cardinality(Ids(call.arg) \ call.pre_ids)
            /\ \A i \in fresh : Occurrences(call.arg[i], added) = 1
            /\ \A k \in 1..Len(added) : \E i \in fresh : added[k] = call.arg[i]

C5_Witness ==
    /\ call.op = "update"
    /\ call.pre_ids = {"A"}
    /\ IdSeq(call.arg) = <<"B", "A", "B", "C">>
    /\ call.arg[1] # call.arg[3]
    /\ Len(known_jobs) = Len(call.pre_jobs) + 2

\* C6: the result of detect_new_jobs is a subsequence of its argument.
C6_DetectKeepsOrder ==
    call.op = "detect" => IsSubseq(call.result, call.arg)

C6_Witness ==
    /\ call.op = "detect"
    /\ call.pre_ids = {"B"}
    /\ IdSeq(call.arg) = <<"C", "B", "A", "C">>
    /\ IdSeq(call.result) = <<"C", "A", "C">>

\* C7: update_known_jobs only appends: the identity set becomes the old one
\* united with the identities of the batch, the old known list is a prefix of
\* the new one, and what was appended is in the order of the batch.
C7_StoreAppendOnly ==
    call.op = "update" =>
        /\ known_ids = call.pre_ids \cup Ids(call.arg)
        /\ Ids(known_jobs) = call.pre_ids \cup Ids(call.arg)
        /\ IsPrefix(call.pre_jobs, known_jobs)
        /\ IsSubseq(SubSeq(known_jobs, Len(call.pre_jobs) + 1, Len(known_jobs)),
                    call.arg)

C7_Witness ==
    /\ call.op = "update"
    /\ call.pre_ids = {"A"}
    /\ IdSeq(call.arg) = <<"C", "B">>
    /\ IdSeq(known_jobs) = <<"A", "C", "B">>
    /\ known_ids = {"A", "B", "C"}

\* C8: jobs.json is not modified before a notification has been attempted for
\* every posting of new_jobs; whatever the file holds beyond its content at
\* run start has had its attempt in this run.
C8_CommitAfterNotifications ==
    /\ file # file0 => Len(attempts) = Len(new_jobs) /\ pc \in {"done", "crashed"}
    /\ \A u \in FileIds(file) \ StartIds : \E i \in 1..Len(attempts) : AttemptIds[i] = u

C8_Witness ==
    /\ pc = "done"
    /\ file0.state = "valid"
    /\ Cardinality(FileIds(file) \ StartIds) = 2
    /\ Len(attempts) = 2

\* C9 as claimed: a summarize call that fails does not end the run: the
\* posting is still posted and the run goes on to update_known_jobs.
C9_SummarizerFailureNonFatal ==
    \A i \in failed_summaries :
        /\ pc # "aborted"
        /\ error # "SummarizerError"

\* C10 as claimed: in a run in which a post_job call failed no exception
\* ends the run: every later posting of new_jobs gets its attempt and the run
\* goes on to update_known_jobs.
C10_NotifierFailureRunCommits ==
    (\E i \in 1..Len(attempts) : ~attempts[i].ok) => pc # "aborted"

\* C11 as claimed: when a run has ended, every posting whose post_job call
\* failed in it is in known_ids and in jobs.json (so that no later run finds
\* it new and posts it again).
C11_FailedNotificationCommitted ==
    pc \in {"done", "aborted"} =>
        \A i \in 1..Len(attempts) :
            ~attempts[i].ok =>
                /\ AttemptIds[i] \in known_ids
                /\ AttemptIds[i] \in FileIds(file)

\* every posting a connector can return
ScrapedJobs == UNION {{ScrapedJob(p, k) : k \in 1..MaxPerConnector} : p \in Platforms}

\* C12: whatever connectors failed, run_scrapers returns: each posting of a
\* connector that returned is in the returned list once, the list holds
\* nothing else, and each failed connector is logged once with its platform.
C12_FailureIsolation ==
    /\ (agg.phase = "gathering" /\ all_finished(agg.task)) => ENABLED AggReturn
    /\ agg.phase = "returned" =>
          /\ pc = "scraped" /\ error = None
          /\ scraped_jobs = agg.out
          /\ \A j \in ScrapedJobs :
                Occurrences(j, agg.out) =
                    IF agg.task[platform(j)] = "done"
                    THEN Occurrences(j, agg.results[platform(j)])
                    ELSE 0
          /\ \A i \in 1..Len(agg.out) : agg.out[i] \in ScrapedJobs
          /\ \A p \in Platforms :
                Occurrences(p, agg.log) = IF agg.task[p] = "failed" THEN 1 ELSE 0
          /\ \A i \in 1..Len(agg.log) : agg.log[i] \in Platforms

C12_Witness ==
    /\ agg.phase = "returned"
    /\ agg.task["VERAMA"] = "failed"
    /\ agg.task["WITTED"] = "failed"
    /\ agg.log = <<"VERAMA", "WITTED">>
    /\ agg.out = <<ScrapedJob("MERCELL", 1), ScrapedJob("EMAGINE", 1)>>
    /\ agg.results["FOLQ"] = <<>>

\* C13 as claimed: with one connector that never finishes and every other one
\* returned or failed, run_scrapers can return.
C13_HungConnectorDoesNotBlock ==
    (/\ agg.phase = "gathering"
     /\ \E p \in Platforms :
           /\ agg.task[p] = "hung"
           /\ \A q \in Platforms \ {p} : agg.task[q] \in {"done", "failed"})
        => ENABLED AggReturn

\* C14: no connector runs before gather and all of them are running once
\* run_scrapers waits; it returns only when every connector has returned or
\* raised, and every posting of a connector that returned is in the result.
C14_AllStartedAllAwaited ==
    /\ agg.phase = "created" => \A p \in Platforms : agg.task[p] = "pending"
    /\ agg.phase \in {"gathering", "returned"} =>
          \A p \in Platforms : agg.task[p] # "pending"
    /\ agg.phase = "returned" =>
          /\ \A p \in Platforms : agg.task[p] \in {"done", "failed"}
          /\ \A p \in Platforms :
                agg.task[p] = "done" =>
                    \A i \in 1..Len(agg.results[p]) :
                        \E k \in 1..Len(agg.out) : agg.out[k] = agg.results[p][i]

C14_Witness ==
    /\ agg.phase = "gathering"
    /\ agg.task["MERCELL"] = "overview"
    /\ agg.task["VERAMA"] = "login"
    /\ agg.task["FOLQ"] = "done" /\ agg.results["FOLQ"] # <<>>
    /\ agg.task["EMAGINE"] = "failed"
    /\ agg.task["WITTED"] = "traverse"

C16_LoadMissingOrUnparsable ==
    /\ file0.state = "absent" =>
          /\ error # "ValidationError"
          /\ pc = "loaded" => known_jobs = <<>> /\ known_ids = {}
    /\ file0.state = "truncated" =>
          /\ pc \notin {"loaded", "summarize", "post", "update", "done"}
          /\ new_jobs = <<>>
          /\ attempts = <<>>
          /\ "notify" \notin io /\ "write" \notin io
          /\ file = file0
          /\ (pc = "aborted" /\ "read" \in io) => error = "ValidationError"

C16_Witness ==
    /\ pc = "aborted"
    /\ error = "ValidationError"
    /\ file0.state = "truncated"
    /\ scraped_jobs # <<>>

\* an identity was added to the store in this run
Inserted == ~(known_ids \subseteq StartIds)

\* C17: jobs.json is written in a run exactly if the run added an identity to
\* the store; a run that adds none leaves the file as it was.
C17_WriteOnlyWhenInserted ==
    /\ "write" \in io <=> Inserted
    /\ ~Inserted => file = file0

C17_Witness ==
    /\ pc = "done"
    /\ scraped_jobs # <<>>
    /\ new_jobs = <<>>
    /\ "write" \notin io
    /\ file = file0

\* C18 as claimed: a run that ends because a required environment variable
\* is missing has launched no browser, scraped nothing, posted nothing and
\* not touched jobs.json.
C18_ConfigErrorBeforeAnyIO ==
    (pc = "aborted" /\ error \in {"SystemExit", "ValueError"}) => io = {}

\* the link of a posting
uri(t) == t.job_overview.job_uri
Uris(s) == {uri(s[i]) : i \in 1..Len(s)}

\* C19: postings with the same link have the same identity whatever their
\* deadline and summary; detect_new_jobs returns no posting whose link is in
\* the store and update_known_jobs appends none.
C19_IdentityIsTheUri ==
    /\ \A s \in Jobs \cup StoredJobs : \A t \in Jobs \cup StoredJobs :
          uri(s) = uri(t) => job_id(s) = job_id(t)
    /\ call.op = "detect" =>
          \A i \in 1..Len(call.result) : uri(call.result[i]) \notin Uris(call.pre_jobs)
    /\ call.op = "update" =>
          /\ \A k \in (Len(call.pre_jobs) + 1)..Len(known_jobs) :
                uri(known_jobs[k]) \notin Uris(call.pre_jobs)
          /\ Cardinality(Uris(known_jobs)) = Len(known_jobs)

C19_Witness ==
    /\ call.op = "update"
    /\ call.pre_jobs = <<MkJob("A", "d2", Summary)>>
    /\ call.arg = <<MkJob("A", "d1", None), MkJob("B", "d1", None)>>
    /\ known_jobs = <<MkJob("A", "d2", Summary), MkJob("B", "d1", None)>>
    /\ FileIds(file) = {"A", "B"}

\* C20: a call of detect_new_jobs, the first or a later one, leaves the
\* known list, the identity set and jobs.json as they were.
C20_DetectIsPureRead ==
    [][call'.op = "detect" => UNCHANGED <<known_jobs, known_ids, file>>]_vars

C20_Witness ==
    /\ call.op = "detect"
    /\ call.detects = 3
    /\ IdSeq(call.arg) = <<"C", "A">>
    /\ IdSeq(call.result) = <<"C">>
    /\ IdSeq(known_jobs) = <<"B", "A">>
    /\ file = ValidFile(known_jobs)

\* C22 as claimed: whatever happens during the write, jobs.json holds what it
\* held when the run started or the whole new known list, and it parses.
C22_FlushIsAtomic ==
    /\ ~load_raises(file)
    /\ file = file0 \/ file = ValidFile(known_jobs)

\* the phases of a run, by the position in main()
Phases == <<"Idle", "Collecting", "Detecting", "Enriching+Notifying",
            "Committing", "Done">>
Phase(p) ==
    CASE p \in {"start", "dotenv", "summarizer"} -> 1
      [] p \in {"browser", "scrapers"} -> 2
      [] p \in {"scraped", "poster", "loaded"} -> 3
      [] p \in {"summarize", "post"} -> 4
      [] p = "update" -> 5
      [] p = "done" -> 6

C24_CredentialsBeforeScrape ==
    /\ (pc = "scrapers" \/ "scrape" \in io) =>
          \A p \in Platforms : Credentials(p) \subseteq env
    /\ (/\ pc \notin {"start", "crashed"}
        /\ \E p \in Platforms : ~(Credentials(p) \subseteq env)) =>
          /\ "scrape" \notin io
          /\ pc \in {"dotenv", "summarizer", "browser", "aborted"}
          /\ (pc = "aborted" /\ "browser" \in io) => error = "ValueError"

C24_Witness ==
    /\ pc = "aborted"
    /\ error = "ValueError"
    /\ "WITTED_PASSWORD" \notin env
    /\ "MERCELL_PASSWORD" \in env
    /\ io = {"browser"}

\* C28: in the loop, posting idx is summarised, then posted, then the loop
\* goes to posting idx + 1: the attempts made are the first postings of
\* new_jobs, each summarised; the postings after idx have not been
\* summarised; no posting of new_jobs was known when the run loaded the file.
C28_SummarizeThenPostInOrder ==
    /\ pc \in {"summarize", "post"} =>
          /\ idx \in 1..Len(new_jobs)
          /\ Len(attempts) = idx - 1
          /\ new_jobs[idx].description_summarised =
                IF pc = "post" THEN Summary ELSE None
          /\ \A k \in (idx + 1)..Len(new_jobs) :
                new_jobs[k].description_summarised = None
    /\ Len(attempts) <= Len(new_jobs)
    /\ \A k \in 1..Len(attempts) :
          /\ attempts[k].job = new_jobs[k]
          /\ attempts[k].job.description_summarised = Summary
    /\ \A k \in failed_summaries :
          /\ k = Len(attempts) + 1
          /\ new_jobs[k].description_summarised = None
    /\ \A k \in 1..Len(new_jobs) : job_id(new_jobs[k]) \notin StartIds
    /\ \A k \in 1..Len(scraped_jobs) :
          scraped_jobs[k].description_summarised = None

C28_Witness ==
    /\ pc = "post"
    /\ idx = 2
    /\ StartIds = {"B"}
    /\ IdSeq(scraped_jobs) = <<"A", "B", "C">>
    /\ IdSeq(new_jobs) = <<"A", "C">>
    /\ AttemptIds = <<"A">>

\* no two postings of s have the same identity
NoDuplicates(s) == Cardinality(Ids(s)) = Len(s)

\* C27: on the loaded store and after every call, known_ids is the set of
\* the identities of known_jobs; if the file held each identity once, so
\* does known_jobs.
C27_StoreConsistent ==
    /\ known_ids = Ids(known_jobs)
    /\ NoDuplicates(load_known_jobs(file0)) => NoDuplicates(known_jobs)
    /\ Len(known_jobs) - Cardinality(Ids(known_jobs))
          = Len(load_known_jobs(file0)) - Cardinality(Ids(load_known_jobs(file0)))

C27_Witness ==
    /\ call.op = "update"
    /\ call.detects = 2
    /\ IdSeq(load_known_jobs(file0)) = <<"C">>
    /\ IdSeq(call.arg) = <<"A", "C">>
    /\ IdSeq(known_jobs) = <<"C", "B", "A">>
    /\ known_ids = {"A", "B", "C"}

\* C26 as claimed: every posting MercellScraper returns has an identity that
\* is neither null nor empty, and the postings of two rows of the table
\* have different identities.
C26_IdentityPresentAndDistinct ==
    agg.phase = "done" =>
        /\ \A k \in 1..Len(agg.jobs) : job_id(agg.jobs[k].job) \notin {None, ""}
        /\ \A k, m \in 1..Len(agg.jobs) :
              agg.jobs[k].row # agg.jobs[m].row =>
                  job_id(agg.jobs[k].job) # job_id(agg.jobs[m].job)

\* identities process r has called post_job for
ConcAttemptIds(r) == {job_id(attempts[r][i].job) : i \in 1..Len(attempts[r])}

\* C21: a run classifies against the file as it loaded it, whatever the other
\* run has posted or written since, and a write puts the writer's own known
\* list in the file, whatever the other run wrote before.
C21_RunsIgnoreEachOther ==
    /\ \A r \in Procs :
          pc[r] \in {"summarize", "update", "done"} =>
              /\ IdSeq(new_jobs[r])
                    = IdSeq(detect_new_jobs(scraped_jobs[r],
                                            Ids(load_known_jobs(file0[r]))))
              /\ ConcAttemptIds(r) \subseteq Ids(new_jobs[r])
    /\ io # <<>> => file = ValidFile(known_jobs[io[Len(io)]])

\* both runs posted the same posting, and the file of the later writer lacks
\* a posting the earlier one had written
C21_Witness ==
    /\ pc = [r \in Procs |-> "done"]
    /\ io = <<1, 2>>
    /\ ConcAttemptIds(1) = {"A", "B"}
    /\ ConcAttemptIds(2) = {"A", "C"}
    /\ FileIds(file) = {"A", "C"}
    /\ known_ids[1] = {"A", "B"}

\* the postings of s that come from platform p, by their links
OfPlatform(s, p) == IdSeq(SelectSeq(s, LAMBDA t : platform(t) = p))

\* C25: what run_scrapers returns holds the postings of each connector in the
\* order the connector returned them; new_jobs, the post_job calls and the
\* postings appended to known_jobs hold those of them they hold in that order.
C25_ConnectorOrderKept ==
    \A p \in Platforms :
        LET returned == IdSeq(agg.results[p])
            posted == [i \in 1..Len(attempts) |-> attempts[i].job]
            appended == SubSeq(known_jobs, Len(load_known_jobs(file0)) + 1,
                               Len(known_jobs))
        IN  /\ agg.phase = "returned" =>
                  /\ OfPlatform(agg.out, p) = returned
                  /\ OfPlatform(scraped_jobs, p) = returned
            /\ IsSubseq(OfPlatform(new_jobs, p), returned)
            /\ IsPrefix(OfPlatform(posted, p), OfPlatform(new_jobs, p))
            /\ pc = "done" =>
                  /\ OfPlatform(appended, p) = OfPlatform(new_jobs, p)
                  /\ OfPlatform(posted, p) = OfPlatform(new_jobs, p)
                  /\ \A i \in 1..Len(returned) :
                        returned[i] \notin StartIds =>
                            \E k \in 1..Len(new_jobs) : job_id(new_jobs[k]) = returned[i]

C25_Witness ==
    /\ pc = "done"
    /\ agg.task["MERCELL"] = "failed"
    /\ StartIds = {<<"VERAMA", 1>>}
    /\ IdSeq(scraped_jobs) = <<<<"VERAMA", 1>>, <<"VERAMA", 2>>,
                               <<"WITTED", 1>>, <<"WITTED", 2>>>>
    /\ AttemptIds = <<<<"VERAMA", 2>>, <<"WITTED", 1>>, <<"WITTED", 2>>>>
    /\ IdSeq(known_jobs) = <<<<"VERAMA", 1>>, <<"VERAMA", 2>>,
                             <<"WITTED", 1>>, <<"WITTED", 2>>>>

====
